---- MODULE Spec2Model ----
(***************************************************************************)
(* Model of the trajecta VRP service: the /optimize handler (src/main.py), *)
(* the distance matrix (src/utils.py) and solve_vrp / _extract_solution    *)
(* (src/solver.py).  One request is followed from its arrival to the       *)
(* response.  Python lists are sequences; list[i] is At(list, i).          *)
(* An Optional value is None (the empty tuple) or Some(x) (a 1-tuple).     *)
(***************************************************************************)
EXTENDS Integers, Sequences, FiniteSets, TLC

VARIABLES pc, state, request, distance_matrix, routing, assignment, elapsed,
          solution, response

vars == <<pc, state, request, distance_matrix, routing, assignment, elapsed,
          solution, response>>

\* ------------------------------------------------------------- bounds
MaxLocations == 3
MaxVehicles == 2
\* time_limit_seconds: Field(30, gt=0, le=300)
MaxTimeLimit == 300

LatValues == {0, 1}
CapacityValues == {1, 2}
DemandValues == {1, 2}
DepotDemandValues == {0, 1}
TimeLimits == {0, 1}

\* ------------------------------------------------------------- helpers
None == << >>
Some(x) == <<x>>
IsNone(o) == o = None
Get(o) == o[1]
At(list, i) == list[i + 1]
Abs(x) == IF x < 0 THEN -x ELSE x

RECURSIVE Sum(_)
Sum(s) == IF s = << >> THEN 0 ELSE Head(s) + Sum(Tail(s))

RECURSIVE Sorted(_)
Sorted(S) ==
    IF S = {} THEN << >>
    ELSE LET m == CHOOSE x \in S : \A y \in S : x <= y
         IN  <<m>> \o Sorted(S \ {m})

Elems(s) == {s[i] : i \in 1..Len(s)}

\* ------------------------------------------------------------- main.py: request
LocId(i) == "loc" \o ToString(i)

location_ids(req) == [i \in 1..Len(req.locations) |-> LocId(i - 1)]

Requests ==
    [locations : UNION {[1..n -> LatValues] : n \in 1..MaxLocations},
     num_vehicles : 0..MaxVehicles,
     vehicle_capacities :
        {None} \cup {Some(c) : c \in UNION {[1..k -> CapacityValues] : k \in 1..MaxVehicles}},
     demands :
        {None} \cup
        {Some(d) : d \in UNION {{<<d0>> \o r : d0 \in DepotDemandValues,
                                              r \in [1..(n - 1) -> DemandValues]}
                                : n \in 1..MaxLocations}},
     time_limit_seconds : TimeLimits]

validate_capacities(req) ==
    IsNone(req.vehicle_capacities)
    \/ Len(Get(req.vehicle_capacities)) = req.num_vehicles

validate_demands(req) ==
    IsNone(req.demands)
    \/ (/\ Len(Get(req.demands)) = Len(req.locations)
        /\ At(Get(req.demands), 0) = 0)

VRPRequestValid(req) ==
    /\ Len(req.locations) >= 2
    /\ req.num_vehicles > 0
    /\ validate_capacities(req)
    /\ validate_demands(req)
    /\ req.time_limit_seconds > 0
    /\ req.time_limit_seconds <= MaxTimeLimit

\* ------------------------------------------------------------- utils.py
\* great_circle(coord_i, coord_j).meters for two points on one meridian, in
\* centimetres: one degree of arc is 111194.93 m on geopy's spherical earth.
great_circle_cm(a, b) == Abs(a - b) * 11119493

\* int(distance): truncation of the metres
calculate_distance_matrix(locations) ==
    [i \in 0..(Len(locations) - 1) |->
        [j \in 0..(Len(locations) - 1) |->
            IF i = j THEN 0
            ELSE great_circle_cm(At(locations, i), At(locations, j)) \div 100]]

\* ------------------------------------------------------------- solver.py: model
\* pywrapcp.RoutingIndexManager(len(distance_matrix), num_vehicles, depot_index):
\* every node keeps its own index, vehicle 0 starts at the depot's index, the other
\* vehicles get fresh start indices, then every vehicle gets a fresh end index.
RoutingIndexManager(num_nodes, num_vehicles, depot_index) ==
    [num_nodes |-> num_nodes, num_vehicles |-> num_vehicles, depot |-> depot_index]

GetNumberOfNodes(manager) == manager.num_nodes

IndexToNode(manager, index) ==
    IF index < manager.num_nodes THEN index ELSE manager.depot

Start(manager, vehicle_id) ==
    IF vehicle_id = 0 THEN manager.depot
    ELSE manager.num_nodes + vehicle_id - 1

End(manager, vehicle_id) ==
    manager.num_nodes + manager.num_vehicles - 1 + vehicle_id

IsEnd(manager, index) == index >= manager.num_nodes + manager.num_vehicles - 1

Vehicles(manager) == 0..(manager.num_vehicles - 1)

distance_callback(matrix, manager, from_index, to_index) ==
    matrix[IndexToNode(manager, from_index)][IndexToNode(manager, to_index)]

GetArcCostForVehicle(matrix, manager, from_index, to_index, vehicle_id) ==
    IF from_index # to_index
    THEN distance_callback(matrix, manager, from_index, to_index)
    ELSE 0

\* mutant: the callback reads the depot's demand instead of the node's
demand_callback_OfDepot(manager, demands, from_index) ==
    At(demands, manager.depot)

demand_callback(manager, demands, from_index) ==
    At(demands, IndexToNode(manager, from_index))

\* mutant: the Capacity dimension is never added
CapacityDimension_Dropped(vehicle_capacities, demands) == None

\* "if vehicle_capacities is not None and demands is not None": the Capacity
\* dimension, or None when it is not added.
CapacityDimension(vehicle_capacities, demands) ==
    IF ~IsNone(vehicle_capacities) /\ ~IsNone(demands)
    THEN Some([capacities |-> Get(vehicle_capacities), demands |-> Get(demands)])
    ELSE None

RoutingModel(matrix, num_vehicles, depot_index, vehicle_capacities, demands) ==
    [manager |-> RoutingIndexManager(Cardinality(DOMAIN matrix), num_vehicles, depot_index),
     matrix |-> matrix,
     dimension |-> CapacityDimension(vehicle_capacities, demands)]

\* ------------------------------------------------------------- solver.py: search
\* An assignment gives NextVar(index) for every non-end index.  Without
\* disjunctions every node is mandatory: each vehicle's chain runs from its start
\* to its end and every non-depot node lies on exactly one chain.
Orderings(S) ==
    {s \in [1..Cardinality(S) -> S] : \A i, j \in 1..Cardinality(S) : i # j => s[i] # s[j]}

Cuts(m, manager) ==
    {c \in [1..m -> Vehicles(manager)] : \A i, j \in 1..m : i <= j => c[i] <= c[j]}

\* the vehicle whose start index is index (vehicle 0 starts at the depot's index)
VehicleOfStart(manager, index) ==
    IF index = manager.depot THEN 0 ELSE index - manager.num_nodes + 1

\* s orders the non-depot nodes, c gives each position its vehicle (non-decreasing):
\* a start is followed by its vehicle's first node, a node by the next node of the
\* same vehicle, and the last one by the vehicle's end.
NextVars(manager, s, c) ==
    [i \in 0..(manager.num_nodes + manager.num_vehicles - 2) |->
        IF i = manager.depot \/ i >= manager.num_nodes
        THEN LET v  == VehicleOfStart(manager, i)
                 ps == {p \in 1..Len(s) : c[p] = v}
             IN  IF ps = {} THEN End(manager, v)
                 ELSE s[CHOOSE p \in ps : \A q \in ps : p <= q]
        ELSE LET p == CHOOSE q \in 1..Len(s) : s[q] = i
             IN  IF p < Len(s) /\ c[p + 1] = c[p] THEN s[p + 1]
                 ELSE End(manager, c[p])]

Assignments(manager) ==
    LET nondepot == (0..(manager.num_nodes - 1)) \ {manager.depot}
    IN  {NextVars(manager, s, c) :
            s \in Orderings(nondepot), c \in Cuts(Cardinality(nondepot), manager)}

\* AddDimensionWithVehicleCapacity(demand, 0, capacities, True, 'Capacity'):
\* the cumul starts at zero, grows by the demand of the index left, and stays
\* within [0, capacity of the vehicle] at every index of the chain.
RECURSIVE CumulOk(_, _, _, _, _, _)
CumulOk(manager, dim, nexts, vehicle_id, index, cumul) ==
    /\ cumul >= 0
    /\ cumul <= At(dim.capacities, vehicle_id)
    /\ \/ IsEnd(manager, index)
       \/ CumulOk(manager, dim, nexts, vehicle_id, nexts[index],
                  cumul + demand_callback(manager, dim.demands, index))

\* mutant: the cumul of the Capacity dimension is not checked
Feasible_Unchecked(rt, nexts) == TRUE

Feasible(rt, nexts) ==
    \/ IsNone(rt.dimension)
    \/ \A v \in Vehicles(rt.manager) :
          CumulOk(rt.manager, Get(rt.dimension), nexts, v, Start(rt.manager, v), 0)

FeasibleAssignments(rt) == {nx \in Assignments(rt.manager) : Feasible(rt, nx)}

\* ------------------------------------------------------------- solver.py: extraction
\* the while loop of _extract_solution for one vehicle, and the end depot
RECURSIVE RouteFrom(_, _, _)
RouteFrom(manager, nexts, index) ==
    IF IsEnd(manager, index) THEN <<IndexToNode(manager, index)>>
    ELSE <<IndexToNode(manager, index)>> \o RouteFrom(manager, nexts, nexts[index])

\* mutant: the depot is not appended at the end of the route
RouteOfVehicle_NoEndDepot(manager, nexts, vehicle_id) ==
    LET r == RouteFrom(manager, nexts, Start(manager, vehicle_id))
    IN  SubSeq(r, 1, Len(r) - 1)

RouteOfVehicle(manager, nexts, vehicle_id) ==
    RouteFrom(manager, nexts, Start(manager, vehicle_id))

RECURSIVE RouteDistanceFrom(_, _, _, _, _)
RouteDistanceFrom(matrix, manager, nexts, index, vehicle_id) ==
    IF IsEnd(manager, index) THEN 0
    ELSE GetArcCostForVehicle(matrix, manager, index, nexts[index], vehicle_id)
         + RouteDistanceFrom(matrix, manager, nexts, nexts[index], vehicle_id)

\* mutant: the arc leaving the start is not added to route_distance
RouteDistance_SkipsFirstArc(matrix, manager, nexts, vehicle_id) ==
    RouteDistanceFrom(matrix, manager, nexts, nexts[Start(manager, vehicle_id)], vehicle_id)

RouteDistance(matrix, manager, nexts, vehicle_id) ==
    RouteDistanceFrom(matrix, manager, nexts, Start(manager, vehicle_id), vehicle_id)

\* mutant: only the end depot is added to visited_nodes
visited_nodes_EndOnly(routes) == {routes[v][Len(routes[v])] : v \in 1..Len(routes)}

visited_nodes(routes) == UNION {Elems(routes[v]) : v \in 1..Len(routes)}

unvisited_nodes(manager, routes) ==
    Sorted((0..(GetNumberOfNodes(manager) - 1)) \ visited_nodes(routes))

extract_solution(rt, nexts, num_vehicles) ==
    LET routes == [v \in 1..num_vehicles |-> RouteOfVehicle(rt.manager, nexts, v - 1)]
        route_distance ==
            [v \in 1..num_vehicles |-> RouteDistance(rt.matrix, rt.manager, nexts, v - 1)]
    IN  [total_distance |-> Some(Sum(route_distance)),
         routes |-> routes,
         unvisited_nodes |-> unvisited_nodes(rt.manager, routes),
         error |-> None]

\* mutant: the failure result lists range(1, n) as unvisited
NoSolutionResult_NonDepotOnly(matrix) ==
    [total_distance |-> None,
     routes |-> << >>,
     unvisited_nodes |-> [i \in 1..(Cardinality(DOMAIN matrix) - 1) |-> i],
     error |-> Some("No solution found")]

\* the "No solution found" result of solve_vrp
NoSolutionResult(matrix) ==
    [total_distance |-> None,
     routes |-> << >>,
     unvisited_nodes |-> [i \in 1..Cardinality(DOMAIN matrix) |-> i - 1],
     error |-> Some("No solution found")]

\* the objective SolveWithParameters minimises: the arc costs of all vehicles
ObjectiveValue(rt, nexts) ==
    Sum([v \in 1..rt.manager.num_vehicles |->
            RouteDistance(rt.matrix, rt.manager, nexts, v - 1)])

\* ------------------------------------------------------------- main.py: response
\* "Calculate route distance" in optimize_routes
route_distance_of(matrix, route_indices) ==
    Sum([i \in 1..(Len(route_indices) - 1) |->
            matrix[route_indices[i]][route_indices[i + 1]]])

\* mutant: the error response reports no unvisited location
ErrorResponse_NoUnvisited(ids, sol) ==
    [total_distance |-> 0,
     routes |-> << >>,
     unvisited_nodes |-> << >>,
     success |-> FALSE,
     message |-> sol.error]

ErrorResponse(ids, sol) ==
    [total_distance |-> 0,
     routes |-> << >>,
     unvisited_nodes |-> ids,
     success |-> FALSE,
     message |-> sol.error]

SuccessResponse(ids, matrix, sol) ==
    [total_distance |-> Get(sol.total_distance),
     routes |-> [v \in 1..Len(sol.routes) |->
                    [vehicle_id |-> v - 1,
                     location_ids |-> [i \in 1..Len(sol.routes[v]) |->
                                          At(ids, sol.routes[v][i])],
                     distance |-> route_distance_of(matrix, sol.routes[v])]],
     unvisited_nodes |-> [i \in 1..Len(sol.unvisited_nodes) |->
                             At(ids, sol.unvisited_nodes[i])],
     success |-> TRUE,
     message |-> Some("Optimization completed successfully")]

VRPResponse(ids, matrix, sol) ==
    IF ~IsNone(sol.error) THEN ErrorResponse(ids, sol)
    ELSE SuccessResponse(ids, matrix, sol)

\* ------------------------------------------------------------- the request's run
Init ==
    /\ pc = "received"
    /\ state = "Idle"
    /\ request \in Requests
    /\ distance_matrix = None
    /\ routing = None
    /\ assignment = None
    /\ elapsed = 0
    /\ solution = None
    /\ response = None

\* pydantic validation of VRPRequest: a request that fails never reaches the handler
Validate ==
    /\ pc = "received"
    /\ pc' = IF VRPRequestValid(request) THEN "validated" ELSE "rejected"
    /\ UNCHANGED <<state, request, distance_matrix, routing, assignment, elapsed,
                   solution, response>>

\* optimize_routes: distance_matrix = calculate_distance_matrix(location_data)
CalculateDistanceMatrix ==
    /\ pc = "validated"
    /\ distance_matrix' = Some(calculate_distance_matrix(request.locations))
    /\ pc' = "matrix"
    /\ UNCHANGED <<state, request, routing, assignment, elapsed, solution, response>>

\* solve_vrp up to the search parameters: manager, model, callbacks, dimension
BuildModel ==
    /\ pc = "matrix"
    /\ routing' = Some(RoutingModel(Get(distance_matrix), request.num_vehicles, 0,
                                    request.vehicle_capacities, request.demands))
    /\ state' = "Init"
    /\ pc' = "solving"
    /\ UNCHANGED <<request, distance_matrix, assignment, elapsed, solution, response>>

\* routing.SolveWithParameters(search_parameters) starts the first-solution strategy
StartSolve ==
    /\ pc = "solving"
    /\ state = "Init"
    /\ state' = "Constructing"
    /\ UNCHANGED <<pc, request, distance_matrix, routing, assignment, elapsed,
                   solution, response>>

\* the first solution is found: the local search starts from it
FirstSolution ==
    /\ state = "Constructing"
    /\ state' = "Searching"
    /\ UNCHANGED <<pc, request, distance_matrix, routing, elapsed, solution, response>>
    /\ \E nx \in FeasibleAssignments(Get(routing)) : assignment' = Some(nx)

\* mutant: a failed solve raises instead of returning the error result
NoSolutionFound_Raises ==
    /\ state = "Constructing"
    /\ pc = "solving"
    /\ pc' = "raised"
    /\ UNCHANGED <<state, request, distance_matrix, routing, assignment, elapsed,
                   solution, response>>
    /\ FeasibleAssignments(Get(routing)) = {}

\* no assignment satisfies the model: SolveWithParameters returns None
NoSolutionFound ==
    /\ state = "Constructing"
    /\ state' = "Failed"
    /\ pc' = "solved"
    /\ UNCHANGED <<request, distance_matrix, routing, assignment, elapsed, response>>
    /\ FeasibleAssignments(Get(routing)) = {}
    /\ solution' = Some(NoSolutionResult(Get(distance_matrix)))

\* the time limit expires before a first solution: SolveWithParameters returns None
FirstSolutionTimeout ==
    /\ state = "Constructing"
    /\ state' = "Failed"
    /\ pc' = "solved"
    /\ elapsed' = request.time_limit_seconds
    /\ UNCHANGED <<request, distance_matrix, routing, assignment, response>>
    /\ FeasibleAssignments(Get(routing)) # {}
    /\ solution' = Some(NoSolutionResult(Get(distance_matrix)))

\* guided local search: the best solution found so far is replaced by a better one
SearchStep ==
    /\ state = "Searching"
    /\ elapsed < request.time_limit_seconds
    /\ elapsed' = elapsed + 1
    /\ UNCHANGED <<pc, state, request, distance_matrix, routing, solution, response>>
    /\ \E nx \in FeasibleAssignments(Get(routing)) :
          /\ assignment' = Some(nx)
          /\ ObjectiveValue(Get(routing), nx) < ObjectiveValue(Get(routing), Get(assignment))

\* the search ends (converged or out of time): "if solution: return _extract_solution(...)"
SearchEnd ==
    /\ state = "Searching"
    /\ solution' = Some(extract_solution(Get(routing), Get(assignment), request.num_vehicles))
    /\ state' = "Extracted"
    /\ pc' = "solved"
    /\ UNCHANGED <<request, distance_matrix, routing, assignment, elapsed, response>>

\* optimize_routes after solve_vrp returned: the VRPResponse
Respond ==
    /\ pc = "solved"
    /\ response' = Some(VRPResponse(location_ids(request), Get(distance_matrix), Get(solution)))
    /\ pc' = "responded"
    /\ UNCHANGED <<state, request, distance_matrix, routing, assignment, elapsed, solution>>

Next ==
    \/ Validate
    \/ CalculateDistanceMatrix
    \/ BuildModel
    \/ StartSolve
    \/ FirstSolution
    \/ SearchEnd
    \/ SearchStep
    \/ NoSolutionFound
    \/ FirstSolutionTimeout
    \/ Respond

Spec == Init /\ [][Next]_vars

\* the handler runs to completion on its own thread: every enabled step is taken
FairSpec == Spec /\ WF_vars(Next)

\* ------------------------------------------------------------- properties
HasSolution == ~IsNone(solution) /\ IsNone(Get(solution).error)
HasError == ~IsNone(solution) /\ ~IsNone(Get(solution).error)
HasResponse == ~IsNone(response)
BothSupplied == ~IsNone(request.vehicle_capacities) /\ ~IsNone(request.demands)
NumNodes == Len(request.locations)
NonDepot == 1..(NumNodes - 1)
Capacity(v) == At(Get(request.vehicle_capacities), v)
Demand(n) == At(Get(request.demands), n)
Load(route) == Sum([i \in 1..Len(route) |-> Demand(route[i])])
Occurrences(n, routes) ==
    Sum([v \in 1..Len(routes) |-> Cardinality({i \in 1..Len(routes[v]) : routes[v][i] = n})])
ArcSum(route) ==
    Sum([i \in 1..(Len(route) - 1) |-> Get(distance_matrix)[route[i]][route[i + 1]]])
Fits(n) == \E v \in 0..(request.num_vehicles - 1) : Demand(n) <= Capacity(v)

\* C1: whenever solve returns a solution, total_distance is the sum of
\* matrix[route[i]][route[i+1]] over the consecutive pairs of all returned routes,
\* and the response's total_distance is the sum of its routes' distance fields.
C1_TotalDistanceIsArcSum ==
    /\ HasSolution =>
          Get(Get(solution).total_distance)
            = Sum([v \in 1..Len(Get(solution).routes) |-> ArcSum(Get(solution).routes[v])])
    /\ (HasResponse /\ Get(response).success) =>
          Get(response).total_distance
            = Sum([v \in 1..Len(Get(response).routes) |-> Get(response).routes[v].distance])

C1_Witness ==
    /\ HasResponse
    /\ Get(response).success
    /\ Len(Get(response).routes) = 2
    /\ \A v \in 1..2 : Get(response).routes[v].distance > 0

\* C2: in every result each non-depot node is either unvisited or occurs exactly
\* once over all routes, never both; in a returned solution unvisited_nodes is
\* exactly the non-depot indices minus the nodes that appear in the routes.
C2_NodePartition ==
    /\ ~IsNone(solution) =>
          \A n \in NonDepot :
              LET occ == Occurrences(n, Get(solution).routes)
              IN  IF n \in Elems(Get(solution).unvisited_nodes) THEN occ = 0 ELSE occ = 1
    /\ HasSolution =>
          Elems(Get(solution).unvisited_nodes)
            = NonDepot \ UNION {Elems(Get(solution).routes[v]) :
                                   v \in 1..Len(Get(solution).routes)}

C2_Witness ==
    /\ HasSolution
    /\ Len(Get(solution).routes) = 2
    /\ \A v \in 1..2 : Len(Get(solution).routes[v]) = 3

\* C3: with capacities and demands both supplied, the demands on each vehicle's
\* route sum to at most its capacity, for the first solution, for every solution
\* the search accepts, and for the routes that are returned.
C3_CapacityRespected ==
    BothSupplied =>
        /\ ~IsNone(assignment) =>
              \A v \in 0..(request.num_vehicles - 1) :
                  Load(RouteOfVehicle(Get(routing).manager, Get(assignment), v)) <= Capacity(v)
        /\ ~IsNone(solution) =>
              \A v \in 1..Len(Get(solution).routes) :
                  Load(Get(solution).routes[v]) <= Capacity(v - 1)

C3_Witness ==
    /\ BothSupplied
    /\ HasSolution
    /\ elapsed = 1
    /\ \E v \in 1..Len(Get(solution).routes) :
          /\ Load(Get(solution).routes[v]) = Capacity(v - 1)
          /\ Len(Get(solution).routes[v]) = 4

\* C4 as claimed: every finished solve is in the terminal state Extracted with a
\* Solution value; there is no Failed outcome.
C4_NoFailedOutcome ==
    pc \in {"solved", "responded"} => (state = "Extracted" /\ HasSolution)

LifecycleOrder ==
    <<state, state'>> \in {<<"Idle", "Init">>, <<"Init", "Constructing">>,
                           <<"Constructing", "Searching">>, <<"Constructing", "Failed">>,
                           <<"Searching", "Extracted">>}

\* C4 amended: a solve passes through Init and Constructing in that order and
\* always ends, either in Extracted with a Solution value (after Searching) or in
\* Failed with the "No solution found" result (straight from Constructing).
C4_LifecycleTerminates ==
    /\ [][state' # state => LifecycleOrder]_vars
    /\ [](state = "Extracted" => (pc \in {"solved", "responded"} /\ HasSolution))
    /\ [](state = "Failed" => (pc \in {"solved", "responded"} /\ HasError))
    /\ (state = "Init") ~> (state \in {"Extracted", "Failed"})

C4_Witness ==
    /\ state = "Failed"
    /\ HasError
    /\ request.time_limit_seconds = 1
    /\ FeasibleAssignments(Get(routing)) = {}

NoNodeFits == BothSupplied /\ \A n \in NonDepot : ~Fits(n)

\* C5 as claimed: when every non-depot demand exceeds every capacity, the response
\* has success = false and unvisited_nodes is exactly the ids of the non-depot
\* locations, the depot's id not among them.
C5_InfeasibleResponse ==
    (HasResponse /\ NoNodeFits) =>
        /\ ~Get(response).success
        /\ Get(response).unvisited_nodes = [i \in 1..(NumNodes - 1) |-> LocId(i)]

\* C5 amended: when every non-depot demand exceeds every capacity, the response
\* has success = false, no routes, and unvisited_nodes lists the id of every
\* location in request order, the depot's id first.
C5_InfeasibleListsEveryLocation ==
    (HasResponse /\ NoNodeFits) =>
        /\ ~Get(response).success
        /\ Get(response).routes = << >>
        /\ Get(response).unvisited_nodes = [i \in 1..NumNodes |-> LocId(i - 1)]

C5_Witness ==
    /\ HasResponse
    /\ NoNodeFits
    /\ request.num_vehicles = 1
    /\ Get(request.vehicle_capacities) = <<1>>
    /\ Get(request.demands) = <<0, 2, 2>>
    /\ Get(response).unvisited_nodes = <<"loc0", "loc1", "loc2">>

\* C6: a request with capacities but no demands, or demands but no capacities, is
\* rejected before any solving begins.
C6_HalfSuppliedRejected ==
    (IsNone(request.vehicle_capacities) # IsNone(request.demands)) =>
        /\ pc \in {"received", "rejected"}
        /\ state = "Idle"

SomeButNotAllFit ==
    /\ pc \notin {"received", "rejected"}
    /\ BothSupplied
    /\ \E n \in NonDepot : Fits(n)
    /\ \E n \in NonDepot : ~Fits(n)

\* C7 as claimed: when some but not all nodes fit, the result is a partial
\* assignment: the nodes that fit are in routes, only the others are unvisited.
C7_PartialAssignment ==
    (SomeButNotAllFit /\ ~IsNone(solution)) =>
        /\ Len(Get(solution).routes) > 0
        /\ \A n \in NonDepot :
              n \in Elems(Get(solution).unvisited_nodes) <=> ~Fits(n)

\* C7 amended: when some but not all nodes fit, solve_vrp returns no partial
\* assignment but the empty "No solution found" result: zero routes, every node
\* index unvisited, and the response has success = false and no routes.
C7_NoPartialAssignment ==
    SomeButNotAllFit =>
        /\ IsNone(assignment)
        /\ ~IsNone(solution) =>
              /\ HasError
              /\ Get(solution).routes = << >>
              /\ Elems(Get(solution).unvisited_nodes) = 0..(NumNodes - 1)
        /\ HasResponse =>
              /\ ~Get(response).success
              /\ Get(response).routes = << >>

C7_Witness ==
    /\ SomeButNotAllFit
    /\ HasResponse
    /\ request.num_vehicles = 2

\* C8: in every response success is false exactly when unvisited_nodes is
\* non-empty, and a response with success = false carries a message.
C8_SuccessIffAllVisited ==
    HasResponse =>
        /\ ~Get(response).success <=> Get(response).unvisited_nodes # << >>
        /\ ~Get(response).success => ~IsNone(Get(response).message)

C8_Witness ==
    /\ HasResponse
    /\ ~Get(response).success
    /\ FeasibleAssignments(Get(routing)) = {}

\* C9: every returned route starts and ends with the depot index and has no depot
\* in between; the route of a vehicle that serves no node is [depot, depot] and
\* adds 0 to total_distance.
C9_RoutesDepotToDepot ==
    HasSolution =>
        \A v \in 1..Len(Get(solution).routes) :
            LET r == Get(solution).routes[v]
                m == Get(routing).manager
            IN  /\ Len(r) >= 2
                /\ r[1] = m.depot
                /\ r[Len(r)] = m.depot
                /\ \A i \in 2..(Len(r) - 1) : r[i] # m.depot
                /\ Get(assignment)[Start(m, v - 1)] = End(m, v - 1) =>
                      /\ r = <<m.depot, m.depot>>
                      /\ RouteDistance(Get(routing).matrix, m, Get(assignment), v - 1) = 0

C9_Witness ==
    /\ HasSolution
    /\ Get(solution).routes = << <<0, 0>>, <<0, 2, 1, 0>> >>
    /\ Get(Get(solution).total_distance) > 0

\* C10: the result of solve_vrp is either num_vehicles routes that cover every
\* node, with nothing unvisited and no error key, or the error result with zero
\* routes, total_distance None and every index 0..N-1 unvisited; never both
\* routes and unvisited nodes.
C10_AllOrNothing ==
    ~IsNone(solution) =>
        LET sol == Get(solution)
        IN  /\ \/ /\ IsNone(sol.error)
                  /\ ~IsNone(sol.total_distance)
                  /\ Len(sol.routes) = request.num_vehicles
                  /\ UNION {Elems(sol.routes[v]) : v \in 1..Len(sol.routes)}
                       = 0..(NumNodes - 1)
                  /\ sol.unvisited_nodes = << >>
               \/ /\ ~IsNone(sol.error)
                  /\ sol.routes = << >>
                  /\ IsNone(sol.total_distance)
                  /\ sol.unvisited_nodes = [i \in 1..NumNodes |-> i - 1]
            /\ ~(sol.routes # << >> /\ sol.unvisited_nodes # << >>)

C10_Witness ==
    /\ HasSolution
    /\ BothSupplied
    /\ Len(Get(solution).routes) = 2
    /\ NumNodes = 3
====
